---- MODULE Spec2Model ----
(***************************************************************************)
(* Model of the OIC deployment scripts deploy_v3.py, deploy_v4.py,         *)
(* project_deploy_v1.py and deploy_oic_integration.py: the validation of   *)
(* the environment, the bearer-token acquisition, the discovery of the     *)
(* archives, the procedure run for each archive (import, replace,          *)
(* activate), the summary and the exit code, and the filename heuristic    *)
(* that derives an identifier.                                             *)
(*                                                                         *)
(* Python strings that the code inspects character by character (file      *)
(* names, paths, identifiers) are sequences of one-character strings.      *)
(***************************************************************************)
EXTENDS Integers, Sequences, FiniteSets, TLC

VARIABLES
    script,                 \* the script that runs
    pc,                     \* position of __main__: "validate", "token", "discover", "loop", "put", "activate", "exit"
    env,                    \* the environment variables read at start-up
    bearer_token,           \* "None", "fetched" or "fallback"
    files_to_deploy,        \* the resolved list of archive paths
    idx,                    \* 1-based position of the for loop over files_to_deploy
    integration_id,         \* local of deploy_oic_integration
    deployment_successful,  \* local of deploy_oic_integration
    reqs,                   \* requests issued by the latest call of deploy_oic_integration, with their responses
    token_calls,            \* number of requests sent to the token endpoint
    token_response,         \* the response to the token request, <<>> while there is none
    archive_requested,      \* TRUE once any import, PUT or activation request was sent in this run
    outcomes,               \* return values of deploy_oic_integration, in call order
    deployment_results,     \* dict basename -> "SUCCESS" / "FAILED"
    overall_success,
    exit_code,              \* Running, 0 or 1
    filename_with_ext,      \* argument of derive_integration_id_from_filename (SpecDerive)
    derived,                \* <<"pending">> or <<"returned", result>> (SpecDerive)
    call,                   \* arguments and server answers of one call of deploy_oic_integration (SpecCompare)
    results                 \* per variant: <<>> or what its deploy_oic_integration did and returned (SpecCompare)

vars == <<script, pc, env, bearer_token, files_to_deploy, idx, integration_id,
          deployment_successful, reqs, token_calls, token_response,
          archive_requested, outcomes, deployment_results, overall_success,
          exit_code, filename_with_ext, derived, call, results>>

runVars == <<script, pc, env, bearer_token, files_to_deploy, idx, integration_id,
             deployment_successful, reqs, token_calls, token_response,
             archive_requested, outcomes, deployment_results, overall_success,
             exit_code>>

deriveVars == <<filename_with_ext, derived>>

compareVars == <<call, results>>

----------------------------------------------------------------------------
(* Bounds *)

\* longest files input (directory listing or comma-separated list), in items
MaxFiles == 2

\* longest basename given to derive_integration_id_from_filename, in tokens
MaxTokens == 5

\* the value of exit_code while the process has not called sys.exit
Running == -1

----------------------------------------------------------------------------
(* Python string primitives *)

Digits == {"0", "1", "2", "3", "4", "5", "6", "7", "8", "9"}

Separators == {".", "_", "-"}

DotIar == <<".", "i", "a", "r">>

DotCar == <<".", "c", "a", "r">>

Pipe == <<"|">>

\* s[i:] of Python for a 0-based i
Drop(s, i) == SubSeq(s, i + 1, Len(s))

\* s[:i] of Python for a 0-based i
Take(s, i) == SubSeq(s, 1, i)

\* c in s
Contains(s, c) == \E i \in 1..Len(s) : s[i] = c

StartsWith(s, p) == Len(s) >= Len(p) /\ SubSeq(s, 1, Len(p)) = p

\* s.endswith(p)
EndsWith(s, p) == Len(s) >= Len(p) /\ SubSeq(s, Len(s) - Len(p) + 1, Len(s)) = p

RECURSIVE ReplaceAll(_, _, _)
\* s.replace(old, new): every non-overlapping occurrence, scanning from the left
ReplaceAll(s, old, new) ==
    IF Len(s) < Len(old) THEN s
    ELSE IF StartsWith(s, old) THEN new \o ReplaceAll(Drop(s, Len(old)), old, new)
    ELSE <<Head(s)>> \o ReplaceAll(Tail(s), old, new)

RECURSIVE LStrip(_, _)
\* s.lstrip(chars)
LStrip(s, chars) ==
    IF s # <<>> /\ Head(s) \in chars THEN LStrip(Tail(s), chars) ELSE s

RECURSIVE RStrip(_, _)
\* s.rstrip(chars)
RStrip(s, chars) ==
    IF s # <<>> /\ s[Len(s)] \in chars THEN RStrip(Take(s, Len(s) - 1), chars) ELSE s

\* s.strip()
Strip(s) == RStrip(LStrip(s, {" "}), {" "})

\* os.path.basename(path)
Basename(path) ==
    LET slashes == {i \in 1..Len(path) : path[i] = "/"}
    IN  IF slashes = {} THEN path
        ELSE Drop(path, CHOOSE i \in slashes : \A j \in slashes : j <= i)

----------------------------------------------------------------------------
(* version_pattern = r'([._-])?([vV]?\d+(?:[._-]\d+){1,3})$'                *)
(* The matcher follows the pattern element by element; each operator maps  *)
(* the set of positions the engine can be at (0-based offsets into s) to   *)
(* the set of positions it can be at after the element.                    *)

\* [vV]?
AfterOptV(s, P) == P \cup {p + 1 : p \in {q \in P : q < Len(s) /\ s[q + 1] \in {"v", "V"}}}

\* \d+
AfterDigits(s, P) ==
    {e \in 1..Len(s) : \E p \in P : p < e /\ \A k \in (p + 1)..e : s[k] \in Digits}

\* [._-]\d+
AfterSepDigits(s, P) ==
    AfterDigits(s, {p + 1 : p \in {q \in P : q < Len(s) /\ s[q + 1] \in Separators}})

\* group 2 followed by $: [vV]?\d+(?:[._-]\d+){1,3}$ matched from offset p
MatchesVersionAt(s, p) ==
    LET d0 == AfterDigits(s, AfterOptV(s, {p}))
        r1 == AfterSepDigits(s, d0)
        r2 == AfterSepDigits(s, r1)
        r3 == AfterSepDigits(s, r2)
    IN  Len(s) \in (r1 \cup r2 \cup r3)

\* group 1 is tried first ("?" is greedy), then the empty alternative
Group1At(s, k) == k < Len(s) /\ s[k + 1] \in Separators /\ MatchesVersionAt(s, k + 1)

MatchesAt(s, k) == Group1At(s, k) \/ MatchesVersionAt(s, k)

\* re.search: the leftmost offset at which the pattern matches;
\* the result is <<>> (None) or [start, group1, start2]
ReSearch(s) ==
    LET starts == {k \in 0..Len(s) : MatchesAt(s, k)}
    IN  IF starts = {} THEN <<>>
        ELSE LET k == CHOOSE m \in starts : \A n \in starts : m <= n
             IN  [start |-> k, group1 |-> Group1At(s, k),
                  start2 |-> IF Group1At(s, k) THEN k + 1 ELSE k]

\* filename_with_ext.replace(".iar", "")
filename_without_ext(name) == ReplaceAll(name, DotIar, <<>>)

\* version_str.lstrip('vV').replace('_', '.').replace('-', '.')
cleaned_version(version_str) ==
    ReplaceAll(ReplaceAll(LStrip(version_str, {"v", "V"}), <<"_">>, <<".">>), <<"-">>, <<".">>)

\* filename_without_ext[:match.start(2) - (1 if match.group(1) else 0)].rstrip('._-')
code_part(stem, match) ==
    RStrip(Take(stem, match.start2 - (IF match.group1 THEN 1 ELSE 0)), Separators)

derive_integration_id_from_filename(name) ==
    LET stem == filename_without_ext(name)
        match == ReSearch(stem)
    IN  IF Contains(stem, "|") THEN stem
        ELSE IF match # <<>>
             THEN code_part(stem, match) \o Pipe \o cleaned_version(Drop(stem, match.start2))
             ELSE stem

----------------------------------------------------------------------------
(* The basenames given to derive_integration_id_from_filename *)

Tokens == {DotIar, Pipe, <<"A">>, <<"1">>, <<"_">>, <<"v">>, <<".">>}

RECURSIVE TokenStrings(_)
\* the strings made of at most n tokens
TokenStrings(n) ==
    IF n = 0 THEN {<<>>}
    ELSE LET shorter == TokenStrings(n - 1)
         IN  shorter \cup {s \o t : s \in shorter, t \in Tokens}

OrderSyncIar == <<"O", "R", "D", "E", "R", "_", "S", "Y", "N", "C", "_", "1", "_", "2", "_", "3", ".", "i", "a", "r">>

OrderSyncId == <<"O", "R", "D", "E", "R", "_", "S", "Y", "N", "C", "|", "1", ".", "2", ".", "3">>

PriceFeedIar == <<"P", "r", "i", "c", "e", "F", "e", "e", "d", "-", "v", "2", "-", "0", "-", "1", ".", "i", "a", "r">>

PriceFeedId == <<"P", "r", "i", "c", "e", "F", "e", "e", "d", "|", "2", ".", "0", ".", "1">>

NoVersionHereIar == <<"N", "o", "V", "e", "r", "s", "i", "o", "n", "H", "e", "r", "e", ".", "i", "a", "r">>

Basenames == TokenStrings(MaxTokens) \cup {OrderSyncIar, PriceFeedIar, NoVersionHereIar}

InitDerive ==
    /\ filename_with_ext \in Basenames
    /\ derived = <<"pending">>
    /\ script = "deploy_v4"
    /\ pc = "idle"
    /\ env = <<>>
    /\ bearer_token = "None"
    /\ files_to_deploy = <<>>
    /\ idx = 0
    /\ integration_id = <<>>
    /\ deployment_successful = FALSE
    /\ reqs = <<>>
    /\ token_calls = 0
    /\ token_response = <<>>
    /\ archive_requested = FALSE
    /\ outcomes = <<>>
    /\ deployment_results = <<>>
    /\ overall_success = TRUE
    /\ exit_code = Running
    /\ call = <<>>
    /\ results = <<>>

\* one call of derive_integration_id_from_filename(filename_with_ext)
Derive ==
    /\ derived = <<"pending">>
    /\ derived' = <<"returned", derive_integration_id_from_filename(filename_with_ext)>>
    /\ UNCHANGED <<filename_with_ext, runVars, compareVars>>

NextDerive == Derive

SpecDerive == InitDerive /\ [][NextDerive]_vars

Returned == derived[1] = "returned"

Result == derived[2]

----------------------------------------------------------------------------
(* What the identifier heuristic is required to compute, stated without    *)
(* the regular expression.                                                 *)

\* the basename without its trailing archive extension
StripExtension(name) ==
    IF EndsWith(name, DotIar) THEN Take(name, Len(name) - Len(DotIar)) ELSE name

\* t is 2 to 4 groups of digits delimited by single separators
IsNumericGroups(t) ==
    /\ t # <<>>
    /\ \A i \in 1..Len(t) : t[i] \in Digits \cup Separators
    /\ t[1] \in Digits /\ t[Len(t)] \in Digits
    /\ \A i \in 1..(Len(t) - 1) : ~(t[i] \in Separators /\ t[i + 1] \in Separators)
    /\ Cardinality({i \in 1..Len(t) : t[i] \in Separators}) \in 1..3

\* t without one leading separator, if it has one
SkipSeparator(t) == IF t # <<>> /\ Head(t) \in Separators THEN Tail(t) ELSE t

\* t without one leading v or V, if it has one
SkipV(t) == IF t # <<>> /\ Head(t) \in {"v", "V"} THEN Tail(t) ELSE t

\* t is a version suffix: optional separator, optional v, numeric groups
IsVersionSuffix(t) == IsNumericGroups(SkipV(SkipSeparator(t)))

\* the offsets at which a version suffix of s starts
SuffixStarts(s) == {k \in 0..Len(s) : IsVersionSuffix(Drop(s, k))}

EndsInVersion(s) == SuffixStarts(s) # {}

\* the numeric groups joined by "."
JoinGroups(t) == [i \in 1..Len(t) |-> IF t[i] \in Separators THEN "." ELSE t[i]]

\* code|version for a name that ends in a version suffix (the longest one)
ExpectedId(s) ==
    LET k == CHOOSE m \in SuffixStarts(s) : \A n \in SuffixStarts(s) : m <= n
    IN  RStrip(Take(s, k), Separators) \o Pipe \o JoinGroups(SkipV(SkipSeparator(Drop(s, k))))

\* C9: for every basename that contains '|', the function returns the
\* basename with only its trailing archive extension removed.
C9_PipeNameUnchanged ==
    (Returned /\ Contains(filename_with_ext, "|"))
        => Result = StripExtension(filename_with_ext)

\* C10: for every basename without '|' whose extension-stripped name ends in
\* a version suffix, the function returns code|version: the numeric groups
\* joined by '.', and the remaining prefix with trailing separators trimmed;
\* the two named examples yield ORDER_SYNC|1.2.3 and PriceFeed|2.0.1.
C10_VersionSuffixParsed ==
    /\ (Returned /\ ~Contains(filename_with_ext, "|")
            /\ EndsInVersion(StripExtension(filename_with_ext)))
        => Result = ExpectedId(StripExtension(filename_with_ext))
    /\ (Returned /\ filename_with_ext = OrderSyncIar) => Result = OrderSyncId
    /\ (Returned /\ filename_with_ext = PriceFeedIar) => Result = PriceFeedId

NoVersionHere == <<"N", "o", "V", "e", "r", "s", "i", "o", "n", "H", "e", "r", "e">>

\* C11: for every basename without '|' whose extension-stripped name does not
\* end in a version suffix, the function returns the extension-stripped name
\* unchanged, and the result contains no '|'; NoVersionHere.iar yields
\* NoVersionHere.
C11_NoVersionUnchanged ==
    /\ (Returned /\ ~Contains(filename_with_ext, "|")
            /\ ~EndsInVersion(StripExtension(filename_with_ext)))
        => (Result = StripExtension(filename_with_ext) /\ ~Contains(Result, "|"))
    /\ (Returned /\ filename_with_ext = NoVersionHereIar) => Result = NoVersionHere


\* the function took the branch of a detected version suffix
SuffixDetected ==
    /\ Returned /\ ~Contains(filename_with_ext, "|")
    /\ ReSearch(filename_without_ext(filename_with_ext)) # <<>>

\* the offsets of the '|' characters of s
PipePositions(s) == {i \in 1..Len(s) : s[i] = "|"}

\* s is code|version with one '|' and a version made of digits and '.'
IsCodeVersion(s, codeMayBeEmpty) ==
    /\ Cardinality(PipePositions(s)) = 1
    /\ LET k == CHOOSE i \in PipePositions(s) : TRUE
       IN  /\ codeMayBeEmpty \/ k > 1
           /\ k < Len(s)
           /\ \A i \in (k + 1)..Len(s) : s[i] \in Digits \cup {"."}

\* C30: for every basename without '|' for which the function detects a
\* version suffix, the returned identifier contains exactly one '|' and has
\* the form code|version with a non-empty code and a non-empty version made
\* only of digits and '.' characters.
C30_DerivedIdWellFormed == SuffixDetected => IsCodeVersion(Result, FALSE)

----------------------------------------------------------------------------
(* The environment of a run *)

Scripts == {"deploy_v3", "deploy_v4", "project_deploy_v1", "deploy_oic_integration"}

\* the scripts that authenticate with a bearer token
TokenScripts == {"deploy_v3", "deploy_v4", "project_deploy_v1"}

\* the scripts that import and then activate with the code|version identifier
IntegrationScripts == {"deploy_v3", "deploy_v4"}

\* the files on disk and the items a files input can name
PathA == <<"a", "/", "A", "_", "1", "_", "2", ".", "i", "a", "r">>

PathDot == <<"a", "/", ".", "i", "a", "r">>

PathCar == <<"a", "/", "P", ".", "c", "a", "r">>

PathGone == <<"g", "o", "n", "e", ".", "i", "a", "r">>

PaddedPathA == <<" ", "a", "/", "A", "_", "1", "_", "2", ".", "i", "a", "r", " ">>

Blank == <<" ">>

\* os.path.exists(path)
Exists(path) == path \in {PathA, PathDot, PathCar}

\* the files os.walk can report for a directory
DirectoryItems == {PathA, PathDot, PathCar}

\* the pieces of IAR_FILES.split(',') when it names files
ListItems == {PaddedPathA, PathGone, Blank}

RECURSIVE SeqsUpTo(_, _)
\* the sequences over S of length at most n
SeqsUpTo(S, n) ==
    IF n = 0 THEN {<<>>}
    ELSE LET shorter == SeqsUpTo(S, n - 1)
         IN  shorter \cup {Append(s, x) : s \in shorter, x \in S}

\* the sequences of s without a repeated item
Distinct(s) == {t \in s : \A i, j \in 1..Len(t) : i # j => t[i] # t[j]}

\* IAR_FILES / CAR_FILES: unset, a directory (with the files found in it, each
\* path reported once by os.walk), or a list (which may name a file twice)
FilesInputs ==
    {[kind |-> "unset", items |-> <<>>]}
    \cup {[kind |-> "dir", items |-> s] : s \in Distinct(SeqsUpTo(DirectoryItems, MaxFiles))}
    \cup {[kind |-> "list", items |-> s] : s \in SeqsUpTo(ListItems, MaxFiles) \ {<<>>}}

OAuthNames == {"OIC_TOKEN_URL", "OIC_CLIENT_ID", "OIC_CLIENT_SECRET", "OIC_SCOPE"}

\* which of the four OAuth settings are set
OAuthSettings == {{}, OAuthNames \ {"OIC_SCOPE"}, OAuthNames}

\* the environment variables each script reads; a variable a script does
\* not read is left at the value that stands for "unset"
Environments(s) ==
    IF s = "deploy_oic_integration"
    THEN [OIC_URL : BOOLEAN,
          OIC_USERNAME : BOOLEAN,
          OIC_PASSWORD : BOOLEAN,
          IAR_FILES : FilesInputs,
          oauth : {{}},
          OIC_FALLBACK_BEARER_TOKEN : {FALSE},
          OIC_INSTANCE_NAME : {""},
          OIC_ENABLE_ASYNC_ACTIVATION : {FALSE}]
    ELSE [OIC_URL : BOOLEAN,
          OIC_USERNAME : {FALSE},
          OIC_PASSWORD : {FALSE},
          IAR_FILES : FilesInputs,
          oauth : OAuthSettings,
          OIC_FALLBACK_BEARER_TOKEN : BOOLEAN,
          OIC_INSTANCE_NAME : {"", "inst"},
          OIC_ENABLE_ASYNC_ACTIVATION : IF s \in IntegrationScripts THEN BOOLEAN ELSE {FALSE}]

\* all([OIC_TOKEN_URL, OIC_CLIENT_ID, OIC_CLIENT_SECRET, OIC_SCOPE])
OAuthComplete(e) == e.oauth = OAuthNames

----------------------------------------------------------------------------
(* Responses of the HTTP endpoints.  err is the transport failure raised   *)
(* by the call ("none" when a response arrived); body is the kind of body. *)

Response(err, status, body) == [err |-> err, status |-> status, body |-> body]

TransportFailures == {Response(e, 0, "") : e \in {"ConnectionError", "Timeout"}}

\* response.raise_for_status() raises HTTPError
IsHttpError(r) == r.status >= 400 /\ r.status < 600

TokenResponses ==
    TransportFailures
    \cup {Response("none", 200, b) :
            b \in {"access_token", "empty_access_token", "no_access_token", "not_json", "json_array"}}
    \cup {Response("none", 201, "access_token"), Response("none", 204, ""),
          Response("none", 401, "error"), Response("none", 500, "error")}

ImportBodies == {"success_id", "success_noid", "error", "not_json", "json_array"}

PostResponses ==
    TransportFailures
    \cup {Response("none", 200, b) : b \in ImportBodies}
    \cup {Response("none", 201, "success_id"), Response("none", 204, ""),
          Response("none", 401, "error"), Response("none", 409, "error"),
          Response("none", 500, "error")}

PutResponses ==
    TransportFailures
    \cup {Response("none", 200, "success_id"), Response("none", 200, ""),
          Response("none", 204, ""), Response("none", 202, ""),
          Response("none", 409, "error"), Response("none", 500, "error")}

ActivationBodies == {"ACTIVATED", "ACTIVATION_INPROGRESS", "FAILED", "not_json", "json_array"}

ActivationResponses ==
    TransportFailures
    \cup {Response("none", 200, b) : b \in ActivationBodies}
    \cup {Response("none", 202, "ACTIVATED"), Response("none", 204, ""),
          Response("none", 401, "error"), Response("none", 500, "error")}

\* the responses to POST .../integrations/{id}/activate of deploy_oic_integration.py
BasicActivationResponses ==
    TransportFailures
    \cup {Response("none", 200, b) : b \in {"SUCCESS", "FAILED", "not_json"}}
    \cup {Response("none", 204, ""), Response("none", 401, "error")}

\* the id a response body carries under "id"
ServerId == <<"S", "|", "1">>

----------------------------------------------------------------------------
(* get_bearer_token: the value returned for a response of the endpoint     *)

\* get_bearer_token taking the presence of access_token for a token
get_bearer_tokenAnyValue(r) ==
    IF r.err # "none" THEN "None"
    ELSE IF IsHttpError(r) THEN "None"
    ELSE IF r.status = 204 THEN "None"
    ELSE IF r.body \in {"access_token", "empty_access_token"} THEN "fetched"
    ELSE "None"

get_bearer_token(r) ==
    IF r.err # "none" THEN "None"
    ELSE IF IsHttpError(r) THEN "None"
    ELSE IF r.status = 204 THEN "None"
    ELSE IF r.body = "access_token" THEN "fetched"
    ELSE "None"

----------------------------------------------------------------------------
(* deploy_oic_integration of deploy_v4.py and of deploy_v3.py *)

target_import_put_url(instance_name) ==
    [endpoint |-> "integrations/archive", id |-> <<>>,
     query |-> IF instance_name # "" THEN <<<<"integrationInstance", instance_name>>>> ELSE <<>>]

\* activate_url without the instance name
activate_urlNoInstance(id, instance_name, enable_async_activation_mode) ==
    [endpoint |-> "integrations/{integration_id}", id |-> id,
     query |-> IF enable_async_activation_mode
               THEN <<<<"enableAsyncActivationMode", "true">>>> ELSE <<>>]

activate_url(id, instance_name, enable_async_activation_mode) ==
    [endpoint |-> "integrations/{integration_id}", id |-> id,
     query |-> (IF instance_name # "" THEN <<<<"integrationInstance", instance_name>>>> ELSE <<>>)
               \o (IF enable_async_activation_mode
                   THEN <<<<"enableAsyncActivationMode", "true">>>> ELSE <<>>)]

\* requests.post / requests.put of the archive as a multipart file
ImportRequest(method, url, path, token, r) ==
    [method |-> method, url |-> url, payload |-> <<"file", Basename(path), path>>,
     auth |-> token, resp |-> r]

\* ActivationRequest with headers built without the token of the run
ActivationRequestNoToken(url, token, r) ==
    [method |-> "ACTIVATE", url |-> url, payload |-> <<"json", "ACTIVATED", <<>>>>,
     auth |-> "None", resp |-> r]

\* requests.request("POST", activate_url, ..., json={"status": "ACTIVATED"})
ActivationRequest(url, token, r) ==
    [method |-> "ACTIVATE", url |-> url, payload |-> <<"json", "ACTIVATED", <<>>>>,
     auth |-> token, resp |-> r]

\* where the code goes after a response: "return" (return False), "put"
\* (the replace request) or "check" (the test before the activation)
Outcome(next, id, ok) == [next |-> next, id |-> id, ok |-> ok]

\* PostOutcome deriving the identifier from the filename on every path
PostOutcomeDeriveAlways(r, basename) ==
    IF r.err # "none" THEN Outcome("return", <<>>, FALSE)
    ELSE IF IsHttpError(r)
         THEN IF r.status = 409 THEN Outcome("put", <<>>, FALSE)
              ELSE Outcome("return", <<>>, FALSE)
    ELSE IF r.status = 204
         THEN Outcome("check", derive_integration_id_from_filename(basename), TRUE)
    ELSE IF r.body \in {"not_json", "success_id", "success_noid"}
         THEN Outcome("check", derive_integration_id_from_filename(basename), TRUE)
    ELSE Outcome("return", <<>>, FALSE)

\* PostOutcome sending the PUT after any HTTP error status
PostOutcomeAnyErrorPut(r, basename) ==
    IF r.err # "none" THEN Outcome("return", <<>>, FALSE)
    ELSE IF IsHttpError(r) THEN Outcome("put", <<>>, FALSE)
    ELSE IF r.status = 204
         THEN Outcome("check", derive_integration_id_from_filename(basename), TRUE)
    ELSE IF r.body = "not_json"
         THEN Outcome("check", derive_integration_id_from_filename(basename), TRUE)
    ELSE IF r.body = "success_id" THEN Outcome("check", ServerId, TRUE)
    ELSE IF r.body = "success_noid"
         THEN Outcome("check", derive_integration_id_from_filename(basename), TRUE)
    ELSE Outcome("return", <<>>, FALSE)

\* PostOutcome sending the PUT after a 200 whose status is not SUCCESS
PostOutcomeNotSuccessPut(r, basename) ==
    IF r.err # "none" THEN Outcome("return", <<>>, FALSE)
    ELSE IF IsHttpError(r)
         THEN IF r.status = 409 THEN Outcome("put", <<>>, FALSE)
              ELSE Outcome("return", <<>>, FALSE)
    ELSE IF r.status = 204
         THEN Outcome("check", derive_integration_id_from_filename(basename), TRUE)
    ELSE IF r.body = "not_json"
         THEN Outcome("check", derive_integration_id_from_filename(basename), TRUE)
    ELSE IF r.body = "success_id" THEN Outcome("check", ServerId, TRUE)
    ELSE IF r.body = "success_noid"
         THEN Outcome("check", derive_integration_id_from_filename(basename), TRUE)
    ELSE Outcome("put", <<>>, FALSE)

\* PostOutcome with the 204 branch leaving deployment_successful unset
PostOutcomeNoFlag(r, basename) ==
    IF r.err # "none" THEN Outcome("return", <<>>, FALSE)
    ELSE IF IsHttpError(r)
         THEN IF r.status = 409 THEN Outcome("put", <<>>, FALSE)
              ELSE Outcome("return", <<>>, FALSE)
    ELSE IF r.status = 204
         THEN Outcome("check", derive_integration_id_from_filename(basename), FALSE)
    ELSE IF r.body = "not_json"
         THEN Outcome("check", derive_integration_id_from_filename(basename), TRUE)
    ELSE IF r.body = "success_id" THEN Outcome("check", ServerId, TRUE)
    ELSE IF r.body = "success_noid"
         THEN Outcome("check", derive_integration_id_from_filename(basename), TRUE)
    ELSE Outcome("return", <<>>, FALSE)

\* the handling of the import POST
PostOutcome(r, basename) ==
    IF r.err # "none" THEN Outcome("return", <<>>, FALSE)
    ELSE IF IsHttpError(r)
         THEN IF r.status = 409 THEN Outcome("put", <<>>, FALSE)
              ELSE Outcome("return", <<>>, FALSE)
    ELSE IF r.status = 204
         THEN Outcome("check", derive_integration_id_from_filename(basename), TRUE)
    ELSE IF r.body = "not_json"
         THEN Outcome("check", derive_integration_id_from_filename(basename), TRUE)
    ELSE IF r.body = "success_id" THEN Outcome("check", ServerId, TRUE)
    ELSE IF r.body = "success_noid"
         THEN Outcome("check", derive_integration_id_from_filename(basename), TRUE)
    ELSE Outcome("return", <<>>, FALSE)

\* PutOutcome accepting every status that raise_for_status accepts
PutOutcomeAnySuccess(r, basename) ==
    IF r.err # "none" THEN Outcome("return", <<>>, FALSE)
    ELSE IF IsHttpError(r) THEN Outcome("return", <<>>, FALSE)
    ELSE LET id == derive_integration_id_from_filename(basename)
         IN  IF id = <<>> THEN Outcome("return", id, FALSE)
             ELSE Outcome("check", id, TRUE)

\* PutOutcome reading the id of the PUT response body when it has one
PutOutcomeBodyId(r, basename) ==
    IF r.err # "none" THEN Outcome("return", <<>>, FALSE)
    ELSE IF IsHttpError(r) THEN Outcome("return", <<>>, FALSE)
    ELSE IF r.status \in {200, 204}
         THEN LET id == IF r.body = "success_id" THEN ServerId
                        ELSE derive_integration_id_from_filename(basename)
              IN  IF id = <<>> THEN Outcome("return", id, FALSE)
                  ELSE Outcome("check", id, TRUE)
    ELSE Outcome("return", <<>>, FALSE)

\* PutOutcome sending the PUT again when it is answered 409
PutOutcomeRetry(r, basename) ==
    IF r.err # "none" THEN Outcome("return", <<>>, FALSE)
    ELSE IF IsHttpError(r)
         THEN IF r.status = 409 THEN Outcome("put", <<>>, FALSE)
              ELSE Outcome("return", <<>>, FALSE)
    ELSE IF r.status \in {200, 204}
         THEN LET id == derive_integration_id_from_filename(basename)
              IN  IF id = <<>> THEN Outcome("return", id, FALSE)
                  ELSE Outcome("check", id, TRUE)
    ELSE Outcome("return", <<>>, FALSE)

\* the handling of the PUT that follows a 409
PutOutcome(r, basename) ==
    IF r.err # "none" THEN Outcome("return", <<>>, FALSE)
    ELSE IF IsHttpError(r) THEN Outcome("return", <<>>, FALSE)
    ELSE IF r.status \in {200, 204}
         THEN LET id == derive_integration_id_from_filename(basename)
              IN  IF id = <<>> THEN Outcome("return", id, FALSE)
                  ELSE Outcome("check", id, TRUE)
    ELSE Outcome("return", <<>>, FALSE)

\* the handling of the import POST in deploy_v2.py: the identifier of a 204
\* is the basename without ".iar", and a SUCCESS without id or a body that is
\* not JSON returns False
PostOutcomeV2(r, basename) ==
    IF r.err # "none" THEN Outcome("return", <<>>, FALSE)
    ELSE IF IsHttpError(r) THEN Outcome("return", <<>>, FALSE)
    ELSE IF r.status = 204
         THEN Outcome("check", ReplaceAll(basename, DotIar, <<>>), TRUE)
    ELSE IF r.body = "success_id" THEN Outcome("check", ServerId, TRUE)
    ELSE Outcome("return", <<>>, FALSE)

\* ActivateOutcomeV2 accepting ACTIVATION_INPROGRESS as well
ActivateOutcomeV2InProgress(r) ==
    IF r.err # "none" THEN FALSE
    ELSE IF IsHttpError(r) THEN FALSE
    ELSE r.body \in {"ACTIVATED", "ACTIVATION_INPROGRESS"}

\* the value returned after the activation request in deploy_v2.py
ActivateOutcomeV2(r) ==
    IF r.err # "none" THEN FALSE
    ELSE IF IsHttpError(r) THEN FALSE
    ELSE r.body = "ACTIVATED"

\* PostOutcomeV3 returning False for a body that is not JSON
PostOutcomeV3StrictJson(r, basename) ==
    IF r.err # "none" THEN Outcome("return", <<>>, FALSE)
    ELSE IF IsHttpError(r) THEN Outcome("return", <<>>, FALSE)
    ELSE IF r.status = 204
         THEN Outcome("check", derive_integration_id_from_filename(basename), TRUE)
    ELSE IF r.body = "success_id" THEN Outcome("check", ServerId, TRUE)
    ELSE IF r.body = "success_noid"
         THEN Outcome("check", derive_integration_id_from_filename(basename), TRUE)
    ELSE Outcome("return", <<>>, FALSE)

\* the handling of the import POST in deploy_v3.py: no replace after a 409;
\* ok stands for "the code reached the test before the activation"
PostOutcomeV3(r, basename) ==
    IF r.err # "none" THEN Outcome("return", <<>>, FALSE)
    ELSE IF IsHttpError(r) THEN Outcome("return", <<>>, FALSE)
    ELSE IF r.status = 204
         THEN Outcome("check", derive_integration_id_from_filename(basename), TRUE)
    ELSE IF r.body = "not_json"
         THEN Outcome("check", derive_integration_id_from_filename(basename), TRUE)
    ELSE IF r.body = "success_id" THEN Outcome("check", ServerId, TRUE)
    ELSE IF r.body = "success_noid"
         THEN Outcome("check", derive_integration_id_from_filename(basename), TRUE)
    ELSE Outcome("return", <<>>, FALSE)

\* MayActivate testing the flag only
MayActivateFlagOnly(ok, id) == ok

\* not (not deployment_successful or not integration_id)
MayActivate(ok, id) == ok /\ id # <<>>

\* ActivateOutcome failing a 200 whose body is not JSON
ActivateOutcomeStrictJson(r) ==
    IF r.err # "none" THEN FALSE
    ELSE IF r.status = 200
         THEN r.body \in {"ACTIVATED", "ACTIVATION_INPROGRESS"}
    ELSE FALSE

\* ActivateOutcome taking an answer that is neither 200 nor an error status,
\* and a 401, for a success
ActivateOutcomeLenient(r) ==
    IF r.err # "none" THEN FALSE
    ELSE IF r.status = 200
         THEN r.body \in {"ACTIVATED", "ACTIVATION_INPROGRESS", "not_json"}
    ELSE r.status = 401 \/ ~IsHttpError(r)

\* the value returned after the activation request
ActivateOutcome(r) ==
    IF r.err # "none" THEN FALSE
    ELSE IF r.status = 200
         THEN r.body \in {"ACTIVATED", "ACTIVATION_INPROGRESS", "not_json"}
    ELSE FALSE

----------------------------------------------------------------------------
(* oic_project_import of project_deploy_v1.py *)

target_import_url(instance_name) ==
    [endpoint |-> "projects/archive", id |-> <<>>,
     query |-> IF instance_name # "" THEN <<<<"integrationInstance", instance_name>>>> ELSE <<>>]

\* ProjectOutcome taking a 409 (the project already exists) for a success
ProjectOutcomeConflictOk(r) ==
    IF r.err # "none" THEN FALSE
    ELSE IF r.status = 409 THEN TRUE
    ELSE IF IsHttpError(r) THEN FALSE
    ELSE IF r.status = 200 THEN r.body \in {"success_id", "success_noid", "not_json"}
    ELSE r.status = 204

\* the value returned after the import POST
ProjectOutcome(r) ==
    IF r.err # "none" THEN FALSE
    ELSE IF IsHttpError(r) THEN FALSE
    ELSE IF r.status = 200 THEN r.body \in {"success_id", "success_noid", "not_json"}
    ELSE r.status = 204

----------------------------------------------------------------------------
(* deploy_oic_integration of deploy_oic_integration.py *)

import_url ==
    [endpoint |-> "integrations/archive", id |-> <<>>,
     query |-> <<<<"integrationInstance", "oci-dev-oic01-axzg4y3f0m2n-px">>>>]

activate_url_template(id) ==
    [endpoint |-> "integrations/{integration_id}/activate", id |-> id, query |-> <<>>]

\* requests.post(activate_url, ..., json={"enableTracing": True})
BasicActivationRequest(url, r) ==
    [method |-> "ACTIVATE", url |-> url, payload |-> <<"json", "enableTracing", <<>>>>,
     auth |-> "basic", resp |-> r]

\* the handling of the import POST: an id to activate, or return False
BasicPostOutcome(r) ==
    IF r.err # "none" THEN Outcome("return", <<>>, FALSE)
    ELSE IF IsHttpError(r) THEN Outcome("return", <<>>, FALSE)
    ELSE IF r.body = "success_id" THEN Outcome("check", ServerId, TRUE)
    ELSE Outcome("return", <<>>, FALSE)

\* the value returned after the activation request
BasicActivateOutcome(r) ==
    IF r.err # "none" THEN FALSE
    ELSE IF IsHttpError(r) THEN FALSE
    ELSE r.body = "SUCCESS"

----------------------------------------------------------------------------
(* __main__ *)

\* ConfigurationError without the test of OIC_URL
ConfigurationErrorNoUrl(e) ==
    \/ e.IAR_FILES.kind = "unset"
    \/ (~OAuthComplete(e) /\ ~e.OIC_FALLBACK_BEARER_TOKEN)

\* the checks that end the run before any request
ConfigurationError(e) ==
    \/ ~e.OIC_URL
    \/ e.IAR_FILES.kind = "unset"
    \/ (~OAuthComplete(e) /\ ~e.OIC_FALLBACK_BEARER_TOKEN)

\* the checks of deploy_oic_integration.py
BasicConfigurationError(e) ==
    \/ ~e.OIC_URL
    \/ ~e.OIC_USERNAME
    \/ ~e.OIC_PASSWORD
    \/ e.IAR_FILES.kind = "unset"

\* the extension the script looks for in a directory
ArchiveExtension(s) == IF s = "project_deploy_v1" THEN DotCar ELSE DotIar

\* MatchingFiles without the test of the extension
MatchingFilesAll(items, ext) == items

\* the files of a directory that are deployed
MatchingFiles(items, ext) == SelectSeq(items, LAMBDA p : EndsWith(Basename(p), ext))

\* [f.strip() for f in IAR_FILES_INPUT.split(',') if f.strip()]
ListedFiles(items) ==
    LET stripped == [i \in 1..Len(items) |-> Strip(items[i])]
    IN  SelectSeq(stripped, LAMBDA f : f # <<>>)

ResolveFiles(input, ext) ==
    IF input.kind = "dir" THEN MatchingFiles(input.items, ext) ELSE ListedFiles(input.items)

\* deployment_results[file_basename] = ...
DictSet(d, k, v) == [x \in DOMAIN d \cup {k} |-> IF x = k THEN v ELSE d[x]]

\* NextOverall computed as "overall_success or success"
NextOverallOr(overall, success) == overall \/ success

\* NextOverall keeping the outcome of the last archive only
NextOverallLast(overall, success) == success

\* if not success: overall_success = False
NextOverall(overall, success) == IF ~success THEN FALSE ELSE overall

\* NextIdx skipping the file that follows a failure
NextIdxSkip(i, success, n) == IF success THEN i + 1 ELSE i + 2

\* NextIdx taking the same file again after a failure
NextIdxRepeat(i, success, n) == IF success THEN i + 1 ELSE i

\* NextIdx leaving the loop at the first failure
NextIdxBreak(i, success, n) == IF success THEN i + 1 ELSE n + 1

\* the for loop takes the next file whatever the outcome
NextIdx(i, success, n) == i + 1

Init ==
    /\ script \in Scripts
    /\ pc = "validate"
    /\ env \in Environments(script)
    /\ bearer_token = "None"
    /\ files_to_deploy = <<>>
    /\ idx = 0
    /\ integration_id = <<>>
    /\ deployment_successful = FALSE
    /\ reqs = <<>>
    /\ token_calls = 0
    /\ token_response = <<>>
    /\ archive_requested = FALSE
    /\ outcomes = <<>>
    /\ deployment_results = <<>>
    /\ overall_success = TRUE
    /\ exit_code = Running
    /\ filename_with_ext = <<>>
    /\ derived = <<"idle">>
    /\ call = <<>>
    /\ results = <<>>

\* sys.exit(code)
Exit(code) == pc' = "exit" /\ exit_code' = code

Validate ==
    /\ pc = "validate"
    /\ IF script \in TokenScripts
       THEN IF ConfigurationError(env) THEN Exit(1)
            ELSE pc' = "token" /\ UNCHANGED exit_code
       ELSE IF BasicConfigurationError(env) THEN Exit(1)
            ELSE pc' = "discover" /\ UNCHANGED exit_code
    /\ UNCHANGED <<script, env, bearer_token, files_to_deploy, idx, integration_id,
                   deployment_successful, reqs, token_calls, token_response, archive_requested,
                   outcomes, deployment_results, overall_success, deriveVars, compareVars>>

\* UseToken preferring the fallback token when one is configured
UseTokenFallbackFirst(fetched) ==
    IF env.OIC_FALLBACK_BEARER_TOKEN
    THEN bearer_token' = "fallback" /\ pc' = "discover" /\ UNCHANGED exit_code
    ELSE IF fetched # "None"
         THEN bearer_token' = fetched /\ pc' = "discover" /\ UNCHANGED exit_code
         ELSE bearer_token' = "None" /\ Exit(1)

\* the token the run goes on with, or the exit when there is none
UseToken(fetched) ==
    IF fetched # "None"
    THEN bearer_token' = fetched /\ pc' = "discover" /\ UNCHANGED exit_code
    ELSE IF env.OIC_FALLBACK_BEARER_TOKEN
         THEN bearer_token' = "fallback" /\ pc' = "discover" /\ UNCHANGED exit_code
         ELSE bearer_token' = "None" /\ Exit(1)

FetchToken ==
    /\ pc = "token"
    /\ OAuthComplete(env)
    /\ \E r \in TokenResponses :
        /\ token_calls' = token_calls + 1
        /\ token_response' = r
        /\ UseToken(get_bearer_token(r))
    /\ UNCHANGED <<script, env, files_to_deploy, idx, integration_id, deployment_successful,
                   reqs, archive_requested, outcomes, deployment_results,
                   overall_success, deriveVars, compareVars>>

SkipToken ==
    /\ pc = "token"
    /\ ~OAuthComplete(env)
    /\ UseToken("None")
    /\ UNCHANGED <<script, env, files_to_deploy, idx, integration_id, deployment_successful,
                   reqs, token_calls, token_response, archive_requested, outcomes, deployment_results,
                   overall_success, deriveVars, compareVars>>

Discover ==
    /\ pc = "discover"
    /\ files_to_deploy' = ResolveFiles(env.IAR_FILES, ArchiveExtension(script))
    /\ IF files_to_deploy' = <<>> THEN Exit(1) /\ UNCHANGED idx
       ELSE pc' = "loop" /\ idx' = 1 /\ UNCHANGED exit_code
    /\ UNCHANGED <<script, env, bearer_token, integration_id, deployment_successful, reqs,
                   token_calls, token_response, archive_requested, outcomes, deployment_results,
                   overall_success, deriveVars, compareVars>>

\* deploy_oic_integration returns success; the loop body records it
Return(success) ==
    /\ outcomes' = Append(outcomes, success)
    /\ deployment_results' = DictSet(deployment_results, Basename(files_to_deploy[idx]),
                                     IF success THEN "SUCCESS" ELSE "FAILED")
    /\ overall_success' = NextOverall(overall_success, success)
    /\ idx' = NextIdx(idx, success, Len(files_to_deploy))
    /\ pc' = "loop"

\* the code after the response of the POST or of the PUT
Continue(out) ==
    /\ integration_id' = out.id
    /\ deployment_successful' = out.ok
    /\ IF out.next = "put"
       THEN pc' = "put" /\ UNCHANGED <<outcomes, deployment_results, overall_success, idx>>
       ELSE IF out.next = "check" /\ MayActivate(out.ok, out.id)
            THEN pc' = "activate" /\ UNCHANGED <<outcomes, deployment_results, overall_success, idx>>
            ELSE Return(FALSE)

\* the call, in any of the scripts, for a file that is not on disk: no request
DeployMissing ==
    /\ pc = "loop" /\ idx \in 1..Len(files_to_deploy)
    /\ ~Exists(files_to_deploy[idx])
    /\ reqs' = <<>>
    /\ integration_id' = <<>>
    /\ deployment_successful' = FALSE
    /\ Return(FALSE)
    /\ UNCHANGED <<script, env, bearer_token, files_to_deploy, token_calls, token_response, archive_requested,
                   exit_code, deriveVars, compareVars>>

\* the call up to the handling of the import POST
DeployPost ==
    /\ script \in IntegrationScripts
    /\ pc = "loop" /\ idx \in 1..Len(files_to_deploy)
    /\ Exists(files_to_deploy[idx])
    /\ \E r \in PostResponses :
        /\ reqs' = <<ImportRequest("POST", target_import_put_url(env.OIC_INSTANCE_NAME),
                                   files_to_deploy[idx], bearer_token, r)>>
        /\ Continue(IF script = "deploy_v4"
                    THEN PostOutcome(r, Basename(files_to_deploy[idx]))
                    ELSE PostOutcomeV3(r, Basename(files_to_deploy[idx])))
    /\ archive_requested' = TRUE
    /\ UNCHANGED <<script, env, bearer_token, files_to_deploy, token_calls, token_response, exit_code, deriveVars, compareVars>>

\* the PUT after a 409 and its handling
DeployPut ==
    /\ script = "deploy_v4"
    /\ pc = "put"
    /\ \E r \in PutResponses :
        /\ reqs' = Append(reqs, ImportRequest("PUT", target_import_put_url(env.OIC_INSTANCE_NAME),
                                              files_to_deploy[idx], bearer_token, r))
        /\ Continue(PutOutcome(r, Basename(files_to_deploy[idx])))
    /\ archive_requested' = TRUE
    /\ UNCHANGED <<script, env, bearer_token, files_to_deploy, token_calls, token_response, exit_code, deriveVars, compareVars>>

\* the activation request and its handling
DeployActivate ==
    /\ script \in IntegrationScripts
    /\ pc = "activate"
    /\ \E r \in ActivationResponses :
        /\ reqs' = Append(reqs, ActivationRequest(
                        activate_url(integration_id, env.OIC_INSTANCE_NAME,
                                     env.OIC_ENABLE_ASYNC_ACTIVATION),
                        bearer_token, r))
        /\ Return(ActivateOutcome(r))
    /\ archive_requested' = TRUE
    /\ UNCHANGED <<script, env, bearer_token, files_to_deploy, integration_id,
                   deployment_successful, token_calls, token_response, exit_code, deriveVars, compareVars>>

\* oic_project_import: the import POST and its handling
ProjectImport ==
    /\ script = "project_deploy_v1"
    /\ pc = "loop" /\ idx \in 1..Len(files_to_deploy)
    /\ Exists(files_to_deploy[idx])
    /\ \E r \in PostResponses :
        /\ reqs' = <<ImportRequest("POST", target_import_url(env.OIC_INSTANCE_NAME),
                                   files_to_deploy[idx], bearer_token, r)>>
        /\ Return(ProjectOutcome(r))
    /\ archive_requested' = TRUE
    /\ UNCHANGED <<script, env, bearer_token, files_to_deploy, integration_id,
                   deployment_successful, token_calls, token_response, exit_code, deriveVars, compareVars>>

\* deploy_oic_integration.py: the call up to the handling of the import POST
BasicPost ==
    /\ script = "deploy_oic_integration"
    /\ pc = "loop" /\ idx \in 1..Len(files_to_deploy)
    /\ Exists(files_to_deploy[idx])
    /\ \E r \in PostResponses :
        /\ reqs' = <<ImportRequest("POST", import_url, files_to_deploy[idx], "basic", r)>>
        /\ integration_id' = BasicPostOutcome(r).id
        /\ IF BasicPostOutcome(r).next = "check"
           THEN pc' = "activate" /\ UNCHANGED <<outcomes, deployment_results, overall_success, idx>>
           ELSE Return(FALSE)
    /\ archive_requested' = TRUE
    /\ UNCHANGED <<script, env, bearer_token, files_to_deploy, deployment_successful,
                   token_calls, token_response, exit_code, deriveVars, compareVars>>

\* deploy_oic_integration.py: the activation request and its handling
BasicActivate ==
    /\ script = "deploy_oic_integration"
    /\ pc = "activate"
    /\ \E r \in BasicActivationResponses :
        /\ reqs' = Append(reqs, BasicActivationRequest(activate_url_template(integration_id), r))
        /\ Return(BasicActivateOutcome(r))
    /\ archive_requested' = TRUE
    /\ UNCHANGED <<script, env, bearer_token, files_to_deploy, integration_id,
                   deployment_successful, token_calls, token_response, exit_code, deriveVars, compareVars>>

\* the summary and the exit code
Summary ==
    /\ pc = "loop" /\ idx > Len(files_to_deploy)
    /\ Exit(IF overall_success THEN 0 ELSE 1)
    /\ UNCHANGED <<script, env, bearer_token, files_to_deploy, idx, integration_id,
                   deployment_successful, reqs, token_calls, token_response, archive_requested,
                   outcomes, deployment_results, overall_success, deriveVars, compareVars>>

Next ==
    \/ Validate
    \/ FetchToken
    \/ SkipToken
    \/ Discover
    \/ DeployMissing
    \/ DeployPost
    \/ DeployPut
    \/ DeployActivate
    \/ ProjectImport
    \/ BasicPost
    \/ BasicActivate
    \/ Summary

Spec == Init /\ [][Next]_vars

----------------------------------------------------------------------------
(* The runs of deploy_v4.py alone.  The script is sequential: when every   *)
(* HTTP call returns a response or raises, the step it is at is taken.     *)

InitV4 == Init /\ script = "deploy_v4"

NextV4 ==
    \/ Validate
    \/ FetchToken
    \/ SkipToken
    \/ Discover
    \/ DeployMissing
    \/ DeployPost
    \/ DeployPut
    \/ DeployActivate
    \/ Summary

SpecV4Fair == InitV4 /\ [][NextV4]_vars /\ WF_vars(NextV4)

----------------------------------------------------------------------------
(* One call of deploy_oic_integration as a function of its arguments and   *)
(* of the answers of the server, for deploy_v2.py, deploy_v3.py and        *)
(* deploy_v4.py, and the specification that gives the same call to each.   *)

Variants == {"deploy_v2", "deploy_v3", "deploy_v4"}

PostOutcomeOf(variant, r, basename) ==
    IF variant = "deploy_v4" THEN PostOutcome(r, basename)
    ELSE IF variant = "deploy_v3" THEN PostOutcomeV3(r, basename)
    ELSE PostOutcomeV2(r, basename)

ActivateOutcomeOf(variant, r) ==
    IF variant = "deploy_v2" THEN ActivateOutcomeV2(r) ELSE ActivateOutcome(r)

\* what a call did: the requests it sent, in order, and the value it returned
Did(log, outcome) == [done |-> TRUE, reqs |-> log, outcome |-> outcome]

NotCalled == [done |-> FALSE, reqs |-> <<>>, outcome |-> FALSE]

\* the test before the activation, the activation request and the return
Activation(variant, c, log, out) ==
    IF out.next = "check" /\ MayActivate(out.ok, out.id)
    THEN Did(Append(log, ActivationRequest(
                 activate_url(out.id, c.instance_name, c.enable_async_activation_mode),
                 c.bearer_token, c.activation)),
             ActivateOutcomeOf(variant, c.activation))
    ELSE Did(log, FALSE)

\* deploy_oic_integration(oic_url, bearer_token, iar_file_path, instance_name,
\* enable_async_activation_mode) of the variant, the server answering c.post,
\* c.put and c.activation
deploy_oic_integration(variant, c) ==
    IF ~Exists(c.iar_file_path) THEN Did(<<>>, FALSE)
    ELSE LET basename == Basename(c.iar_file_path)
             url == target_import_put_url(c.instance_name)
             post == ImportRequest("POST", url, c.iar_file_path, c.bearer_token, c.post)
             out == PostOutcomeOf(variant, c.post, basename)
         IN  IF out.next = "put"
             THEN Activation(variant, c,
                             <<post, ImportRequest("PUT", url, c.iar_file_path,
                                                   c.bearer_token, c.put)>>,
                             PutOutcome(c.put, basename))
             ELSE Activation(variant, c, <<post>>, out)

\* the calls that are compared
Calls ==
    [iar_file_path : {PathA, PathDot, PathGone},
     bearer_token : {"fetched"},
     instance_name : {"", "inst"},
     enable_async_activation_mode : BOOLEAN,
     post : PostResponses,
     put : PutResponses,
     activation : ActivationResponses]

InitCompare ==
    /\ call \in Calls
    /\ results = [v \in Variants |-> NotCalled]
    /\ script = "deploy_v4"
    /\ pc = "idle"
    /\ env = <<>>
    /\ bearer_token = "None"
    /\ files_to_deploy = <<>>
    /\ idx = 0
    /\ integration_id = <<>>
    /\ deployment_successful = FALSE
    /\ reqs = <<>>
    /\ token_calls = 0
    /\ token_response = <<>>
    /\ archive_requested = FALSE
    /\ outcomes = <<>>
    /\ deployment_results = <<>>
    /\ overall_success = TRUE
    /\ exit_code = Running
    /\ filename_with_ext = <<>>
    /\ derived = <<"idle">>

\* the variant runs the call
Call(variant) ==
    /\ ~results[variant].done
    /\ results' = [results EXCEPT ![variant] = deploy_oic_integration(variant, call)]
    /\ UNCHANGED <<call, runVars, deriveVars>>

CallV2 == Call("deploy_v2")

CallV3 == Call("deploy_v3")

CallV4 == Call("deploy_v4")

NextCompare ==
    \/ CallV2
    \/ CallV3
    \/ CallV4

SpecCompare == InitCompare /\ [][NextCompare]_vars

----------------------------------------------------------------------------
(* Properties of a run *)

V4 == script = "deploy_v4"

\* a call of deploy_oic_integration has returned and reqs holds its requests
Completed == pc \in {"loop", "exit"} /\ outcomes # <<>>

LastOutcome == outcomes[Len(outcomes)]

LastFile == files_to_deploy[Len(outcomes)]

RequestsOf(m) == {i \in DOMAIN reqs : reqs[i].method = m}

\* the response is a transport failure or an HTTP error status
Failed(r) == r.err # "none" \/ IsHttpError(r)

PostConflict == reqs # <<>> /\ reqs[1].method = "POST" /\ reqs[1].resp.status = 409

\* the import reported success: POST 204, POST with a SUCCESS or unparsable
\* body, or POST 409 followed by a PUT answered 200 or 204
ImportSucceeded ==
    /\ reqs # <<>>
    /\ \/ /\ ~Failed(reqs[1].resp)
          /\ \/ reqs[1].resp.status = 204
             \/ reqs[1].resp.body \in {"success_id", "success_noid", "not_json"}
       \/ /\ PostConflict
          /\ \E i \in RequestsOf("PUT") :
                reqs[i].resp.err = "none" /\ reqs[i].resp.status \in {200, 204}

Activated == RequestsOf("ACTIVATE") # {}

\* C1: if the import (POST or PUT fallback) fails, or no non-empty identifier
\* was determined, the archive is recorded Failed and no activation request
\* is issued for it.
C1_NoActivationWithoutImport ==
    /\ (V4 /\ Activated) => (ImportSucceeded /\ integration_id # <<>>)
    /\ (V4 /\ Completed /\ (~ImportSucceeded \/ integration_id = <<>>))
        => (LastOutcome = FALSE /\ ~Activated
            /\ deployment_results[Basename(LastFile)] = "FAILED")

\* the import succeeded but the identifier derived from the filename is empty
C1_Witness ==
    /\ V4 /\ Completed /\ ImportSucceeded /\ integration_id = <<>>
    /\ LastOutcome = FALSE /\ ~Activated

\* C2: a POST answered 409 is followed by exactly one PUT, to the same URL
\* and with the same file; when the PUT returns 200 or 204 the identifier
\* used for the activation is the one derived from the filename, whatever
\* the PUT response carries.
C2_ConflictPutsOnce ==
    (V4 /\ PostConflict) =>
        /\ RequestsOf("PUT") = (IF pc = "put" THEN {} ELSE {2})
        /\ \A i \in RequestsOf("PUT") :
            /\ reqs[i].url = reqs[1].url
            /\ reqs[i].payload = reqs[1].payload
            /\ (reqs[i].resp.err = "none" /\ reqs[i].resp.status \in {200, 204})
                => /\ integration_id = derive_integration_id_from_filename(reqs[1].payload[2])
                   /\ \A j \in RequestsOf("ACTIVATE") :
                        reqs[j].url.id = derive_integration_id_from_filename(reqs[1].payload[2])

\* a PUT whose response carries an id is followed by an activation of the derived id
C2_Witness ==
    /\ V4 /\ PostConflict /\ Len(reqs) = 3
    /\ reqs[2].method = "PUT" /\ reqs[2].resp.body = "success_id"
    /\ reqs[2].url.query # <<>>
    /\ reqs[3].method = "ACTIVATE" /\ reqs[3].url.id # ServerId

FailedCount == Cardinality({i \in DOMAIN outcomes : ~outcomes[i]})

\* C3: with N archives of which K failed, the exit code is 0 iff K = 0 and 1
\* otherwise; the overall result is the conjunction of the outcomes.
C3_ExitCodeIsConjunction ==
    /\ overall_success = (\A i \in DOMAIN outcomes : outcomes[i])
    /\ (pc = "exit" /\ files_to_deploy # <<>>)
        => /\ exit_code \in {0, 1}
           /\ exit_code = 0 <=> FailedCount = 0

\* the first of two archives failed, the second succeeded
C3_Witness ==
    /\ pc = "exit" /\ outcomes = <<FALSE, TRUE>> /\ exit_code = 1

\* the files input is a directory without any .iar file
EmptyDirectory ==
    /\ env.IAR_FILES.kind = "dir"
    /\ \A i \in DOMAIN env.IAR_FILES.items :
        ~EndsWith(env.IAR_FILES.items[i], IF script = "project_deploy_v1" THEN DotCar ELSE DotIar)

\* C4 as stated: with a directory holding no matching file the run ends with
\* exit code 1 and has issued no HTTP request of any kind, token included.
C4_NoRequestOfAnyKind ==
    EmptyDirectory =>
        /\ token_calls = 0 /\ ~archive_requested
        /\ pc = "exit" => exit_code = 1

\* C4 as amended: with a directory holding no matching file the run ends
\* with exit code 1 and has issued no import, PUT or activation request; the
\* token endpoint is requested at most once, and only when the OAuth
\* settings are complete (the token is fetched before the directory is read).
C4_NoArchiveRequest ==
    EmptyDirectory =>
        /\ ~archive_requested /\ reqs = <<>>
        /\ pc \in {"validate", "token", "discover", "exit"}
        /\ pc = "exit" => exit_code = 1
        /\ token_calls <= 1
        /\ token_calls = 1 => (script \in TokenScripts /\ env.oauth = OAuthNames)

\* the run ended at the discovery of an empty directory, after the token request
C4_Witness ==
    /\ V4 /\ EmptyDirectory /\ env.IAR_FILES.items # <<>>
    /\ pc = "exit" /\ exit_code = 1 /\ token_calls = 1 /\ bearer_token = "fetched"

\* C5: a failure is recorded for its archive only and the following archives
\* are still processed: the loop never ends early, the run exits only after
\* all N archives were attempted, and an archive's outcome depends on its
\* own requests only.
C5_FailureIsLocal ==
    /\ pc \in {"loop", "put", "activate"}
        => (exit_code = Running /\ idx = Len(outcomes) + 1)
    /\ (pc = "exit" /\ files_to_deploy # <<>>) => Len(outcomes) = Len(files_to_deploy)
    /\ (V4 /\ Completed) =>
        (LastOutcome <=>
            \E i \in RequestsOf("ACTIVATE") :
                /\ reqs[i].resp.err = "none" /\ reqs[i].resp.status = 200
                /\ reqs[i].resp.body \in {"ACTIVATED", "ACTIVATION_INPROGRESS", "not_json"})

\* an archive succeeded after the one before it failed
C5_Witness ==
    /\ V4 /\ pc = "exit" /\ Len(files_to_deploy) = 2
    /\ outcomes[1] = FALSE /\ outcomes[2] = TRUE

\* a required environment value is missing
ConfigMissing ==
    \/ ~env.OIC_URL
    \/ env.IAR_FILES.kind = "unset"
    \/ (script \in TokenScripts /\ env.oauth # OAuthNames /\ ~env.OIC_FALLBACK_BEARER_TOKEN)
    \/ (script = "deploy_oic_integration" /\ (~env.OIC_USERNAME \/ ~env.OIC_PASSWORD))

\* C6: with a required environment value missing the run exits with code 1
\* at once, and no HTTP request is issued before the exit.
C6_ConfigErrorBeforeNetwork ==
    ConfigMissing =>
        /\ token_calls = 0 /\ ~archive_requested
        /\ pc \in {"validate", "exit"}
        /\ pc = "exit" => exit_code = 1

\* the OAuth settings lack the scope and there is no fallback token
C6_Witness ==
    /\ V4 /\ env.OIC_URL /\ env.IAR_FILES.kind # "unset"
    /\ env.oauth = OAuthNames \ {"OIC_SCOPE"} /\ ~env.OIC_FALLBACK_BEARER_TOKEN
    /\ pc = "exit" /\ exit_code = 1

\* C7: per archive at most one POST, one PUT and one activation request; a
\* failed request is followed by another request only when it is the POST
\* answered 409, and then by the PUT.
C7_NoRetry ==
    V4 =>
    /\ \A m \in {"POST", "PUT", "ACTIVATE"} : Cardinality(RequestsOf(m)) <= 1
    /\ \A i \in 1..(Len(reqs) - 1) :
        Failed(reqs[i].resp)
            => (reqs[i].method = "POST" /\ reqs[i].resp.status = 409
                /\ reqs[i + 1].method = "PUT")
    /\ (pc \in {"put", "activate"} /\ reqs # <<>> /\ Failed(reqs[Len(reqs)].resp))
        => (pc = "put" /\ Len(reqs) = 1 /\ PostConflict)

\* POST, PUT and activation were each sent once and the last one timed out
C7_Witness ==
    /\ V4 /\ Completed /\ Len(reqs) = 3
    /\ reqs[2].resp.status = 204
    /\ reqs[3].resp.err = "Timeout" /\ LastOutcome = FALSE

\* C8: when the import reported success and a non-empty identifier was
\* determined, an activation request for that identifier is issued.
C8_ImportedIsActivated ==
    (V4 /\ Completed /\ ImportSucceeded /\ integration_id # <<>>)
        => \E i \in RequestsOf("ACTIVATE") : reqs[i].url.id = integration_id

\* an activation was attempted, and failed, after an import answered 204
C8_Witness ==
    /\ V4 /\ Completed /\ Len(reqs) = 2 /\ reqs[1].resp.status = 204
    /\ reqs[2].method = "ACTIVATE" /\ reqs[2].url.id = integration_id
    /\ reqs[2].resp.status = 500

\* the token endpoint has answered (or the request has failed)
TokenRequested == token_response # <<>>

\* the value get_bearer_token returned, as __main__ goes on with it
TokenReturned == bearer_token = "fetched"

\* after a return of None __main__ falls back or exits; nothing is raised
NoTokenReturned ==
    /\ bearer_token = (IF env.OIC_FALLBACK_BEARER_TOKEN THEN "fallback" ELSE "None")
    /\ ~env.OIC_FALLBACK_BEARER_TOKEN => (pc = "exit" /\ exit_code = 1)

\* C12 as stated: get_bearer_token returns a token only when the endpoint
\* answers HTTP 200 with a JSON body containing a non-empty access_token, and
\* then returns that value; for every other outcome it returns no token and
\* raises nothing.
C12_TokenOnlyOn200 ==
    TokenRequested =>
        IF token_response.err = "none" /\ token_response.status = 200
              /\ token_response.body = "access_token"
        THEN TokenReturned
        ELSE NoTokenReturned

\* C12 amended: get_bearer_token returns a token exactly when the endpoint
\* answers with a status that raise_for_status accepts (below 400) other than
\* 204 and a JSON body containing a non-empty access_token, and then returns
\* that value; for every other outcome (4xx/5xx, 204, connection or timeout
\* failure, non-JSON body, JSON without a non-empty access_token) it returns
\* no token and raises nothing.
C12_TokenOnAcceptedStatus ==
    TokenRequested =>
        IF token_response.err = "none" /\ token_response.status < 400
              /\ token_response.status # 204 /\ token_response.body = "access_token"
        THEN TokenReturned
        ELSE NoTokenReturned

C12_Witness ==
    /\ TokenRequested /\ token_response.status = 201
    /\ token_response.body = "access_token" /\ TokenReturned

\* a request of the latest call was answered with HTTP status s
Answered(s) == \E i \in DOMAIN reqs : reqs[i].resp.err = "none" /\ reqs[i].resp.status = s

\* C13: in a run of deploy_v4 the token endpoint is requested at most once,
\* and only before the first archive is processed; no token request follows
\* an archive request, in particular not one answered 401, and an archive
\* that received a 401 is recorded Failed.
C13_TokenOnceBeforeArchives ==
    [][V4 =>
        /\ token_calls' <= 1
        /\ token_calls' # token_calls => (idx = 0 /\ outcomes = <<>> /\ ~archive_requested)
        /\ archive_requested => token_calls' = token_calls
        /\ (Completed' /\ Answered(401)')
            => (LastOutcome' = FALSE
                /\ deployment_results'[Basename(LastFile')] = "FAILED")]_vars

\* the second archive of a run that fetched its token got a 401 on activation
C13_Witness ==
    /\ V4 /\ Completed /\ token_calls = 1 /\ Len(outcomes) = 2
    /\ Activated /\ Answered(401) /\ LastOutcome = FALSE

\* the token stage of __main__ is over
TokenStageDone == pc \notin {"validate", "token"}

\* the token request was made and its answer carried a token
TokenFetched ==
    /\ token_response # <<>>
    /\ token_response.err = "none" /\ token_response.status < 400
    /\ token_response.status # 204 /\ token_response.body = "access_token"

\* C14: in deploy_v4, if the token fetch returns a token every archive
\* request carries that token; if the fetch fails or is skipped and a
\* fallback token is set every archive request carries the fallback; if the
\* fetch fails or is skipped and no fallback is set the run exits with code 1
\* without any import, PUT or activation request.
C14_TokenSelection ==
    (V4 /\ TokenStageDone) =>
        /\ TokenFetched => \A i \in DOMAIN reqs : reqs[i].auth = "fetched"
        /\ (~TokenFetched /\ env.OIC_FALLBACK_BEARER_TOKEN)
            => \A i \in DOMAIN reqs : reqs[i].auth = "fallback"
        /\ (~TokenFetched /\ ~env.OIC_FALLBACK_BEARER_TOKEN)
            => (pc = "exit" /\ exit_code = 1 /\ ~archive_requested /\ reqs = <<>>)

\* a fallback is configured, the fetch succeeded, and the fetched token is sent
C14_Witness ==
    /\ V4 /\ TokenFetched /\ env.OIC_FALLBACK_BEARER_TOKEN
    /\ Len(reqs) = 2 /\ \A i \in DOMAIN reqs : reqs[i].auth = "fetched"

\* the response to the activation request of the latest call
ActivationResponse == reqs[Len(reqs)].resp

\* C15: in deploy_v3 and deploy_v4 the activation step yields Success if and
\* only if the response status is exactly 200 and either its JSON status is
\* ACTIVATED or ACTIVATION_INPROGRESS or its body is unparsable; a 200 with
\* any other JSON status and every non-200 answer (202, 204, 401, any other
\* 4xx/5xx) yield Failed.
C15_ActivationVerdict ==
    (script \in IntegrationScripts /\ Completed /\ Activated) =>
        (LastOutcome = TRUE <=>
            /\ ActivationResponse.err = "none"
            /\ ActivationResponse.status = 200
            /\ ActivationResponse.body \in {"ACTIVATED", "ACTIVATION_INPROGRESS", "not_json"})

\* deploy_v3 takes a 200 with an unparsable body for a success
C15_Witness ==
    /\ script = "deploy_v3" /\ Completed /\ Activated
    /\ ActivationResponse.status = 200 /\ ActivationResponse.body = "not_json"
    /\ LastOutcome = TRUE

\* the import POST of the latest call failed for good: a 200 whose JSON body
\* does not report SUCCESS, an HTTP error status other than 409, or a
\* network or timeout failure
PostFailedForGood ==
    /\ reqs # <<>> /\ reqs[1].method = "POST"
    /\ \/ /\ reqs[1].resp.err = "none" /\ reqs[1].resp.status = 200
          /\ reqs[1].resp.body \in {"error", "json_array"}
       \/ /\ reqs[1].resp.err = "none" /\ IsHttpError(reqs[1].resp)
          /\ reqs[1].resp.status # 409
       \/ reqs[1].resp.err # "none"

\* C16: in deploy_v4 the import step ends Failed with no PUT and no
\* activation request when the POST returns 200 with a JSON body whose status
\* is not SUCCESS, when it returns any HTTP error status other than 409, and
\* when it fails with a network or timeout error.
C16_ImportFailureEnds ==
    (V4 /\ PostFailedForGood) =>
        /\ Completed /\ LastOutcome = FALSE
        /\ LastFile = reqs[1].payload[3]
        /\ deployment_results[Basename(LastFile)] = "FAILED"
        /\ Len(reqs) = 1

C16_Witness ==
    /\ V4 /\ PostFailedForGood /\ reqs[1].resp.status = 500
    /\ Completed /\ LastOutcome = FALSE /\ Len(reqs) = 1

Project == script = "project_deploy_v1"

\* C17: the project variant issues at most one HTTP request per archive, the
\* import POST, and never a PUT or an activation request; a POST answered 409
\* is recorded Failed.
C17_ProjectImportOnly ==
    Project =>
        /\ Len(reqs) <= 1
        /\ \A i \in DOMAIN reqs :
              reqs[i].method = "POST" /\ reqs[i].url.endpoint = "projects/archive"
        /\ pc \notin {"put", "activate"}
        /\ (Completed /\ Answered(409))
            => (LastOutcome = FALSE
                /\ deployment_results[Basename(LastFile)] = "FAILED")

C17_Witness ==
    /\ Project /\ Completed /\ Len(reqs) = 1 /\ Answered(409)
    /\ LastOutcome = FALSE

\* the import POST returned a JSON body with status SUCCESS and a non-empty id
PostGaveId ==
    /\ reqs # <<>> /\ reqs[1].method = "POST"
    /\ ~Failed(reqs[1].resp) /\ reqs[1].resp.status # 204
    /\ reqs[1].resp.body = "success_id"

\* the identifier in the URL of the activation request of the latest call
ActivatedId == reqs[Len(reqs)].url.id

\* C18: in deploy_v4 the identifier sent in the activation request equals the
\* server-returned id exactly when the POST returned a JSON body with status
\* SUCCESS and a non-empty id; on every other path that reaches activation
\* (POST 204, SUCCESS without id, unparsable JSON, PUT after 409) it equals
\* derive_integration_id_from_filename(basename).
C18_ActivationIdentifier ==
    (V4 /\ Activated) =>
        /\ Completed /\ reqs[Len(reqs)].method = "ACTIVATE"
        /\ ActivatedId = ServerId <=> PostGaveId
        /\ ~PostGaveId
            => ActivatedId = derive_integration_id_from_filename(Basename(LastFile))

\* SUCCESS without an id: the activation uses the identifier of the filename
C18_Witness ==
    /\ V4 /\ Activated /\ reqs[1].resp.body = "success_noid"
    /\ ActivatedId = derive_integration_id_from_filename(Basename(LastFile))
    /\ ActivatedId # ServerId

\* the request added to reqs by a step
NewRequest == reqs'[Len(reqs')]

\* C19: archives are processed strictly one at a time, in discovery order:
\* every request for archive i has completed and its outcome is recorded
\* before any request for archive i+1 is issued, and within an archive the
\* requests are ordered POST, then PUT (if any), then activation (if any).
C19_OneArchiveAtATime ==
    [][/\ idx' \in {idx, idx + 1}
       /\ files_to_deploy # <<>> => files_to_deploy' = files_to_deploy
       /\ Len(outcomes') # Len(outcomes)
            => (Len(outcomes') = idx /\ idx' = idx + 1
                /\ SubSeq(outcomes', 1, Len(outcomes)) = outcomes)
       /\ (reqs' # reqs \/ (pc = "loop" /\ idx \in 1..Len(files_to_deploy)))
            => /\ Len(outcomes) = idx - 1
               /\ \/ reqs' = <<>>
                  \/ /\ pc = "loop" /\ Len(reqs') = 1
                     /\ NewRequest.method = "POST"
                     /\ NewRequest.payload[3] = files_to_deploy[idx]
                  \/ /\ reqs' = Append(reqs, NewRequest)
                     /\ reqs[1].method = "POST"
                     /\ reqs[1].payload[3] = files_to_deploy[idx]
                     /\ \/ NewRequest.method = "PUT" /\ Len(reqs) = 1
                        \/ NewRequest.method = "ACTIVATE"
                            /\ \A i \in 2..Len(reqs) : reqs[i].method = "PUT"]_vars

\* the second archive is between its PUT and its activation, the first is recorded
C19_Witness ==
    /\ V4 /\ idx = 2 /\ Len(outcomes) = 1 /\ pc = "activate"
    /\ Len(reqs) = 2 /\ reqs[1].method = "POST" /\ reqs[2].method = "PUT"
    /\ reqs[1].payload[3] = files_to_deploy[2]

\* the PUT that followed a 409 ended otherwise than with status 200 or 204
PutFailed ==
    /\ PostConflict /\ Len(reqs) >= 2 /\ reqs[2].method = "PUT"
    /\ ~(reqs[2].resp.err = "none" /\ reqs[2].resp.status \in {200, 204})

\* C20: in deploy_v4, after a 409 on the POST, any PUT outcome other than
\* status 200 or 204 (a second 409, any other status, a transport failure)
\* ends the archive as Failed with no further PUT, no repeated POST and no
\* activation request.
C20_PutFailureEnds ==
    (V4 /\ PutFailed) =>
        /\ Completed /\ LastOutcome = FALSE
        /\ LastFile = reqs[1].payload[3]
        /\ deployment_results[Basename(LastFile)] = "FAILED"
        /\ Len(reqs) = 2

\* a PUT answered 202 is a failure
C20_Witness ==
    /\ V4 /\ PutFailed /\ reqs[2].resp.err = "none" /\ reqs[2].resp.status = 202
    /\ Completed /\ LastOutcome = FALSE /\ Len(reqs) = 2

\* the values the URL gives to the query parameter name
ParamValues(url, name) == {url.query[j][2] : j \in {k \in DOMAIN url.query : url.query[k][1] = name}}

\* the number of times the URL carries the query parameter name
ParamCount(url, name) == Cardinality({k \in DOMAIN url.query : url.query[k][1] = name})

InstanceConfigured == env.OIC_INSTANCE_NAME # ""

\* C22: in deploy_v4 the import/PUT URL carries integrationInstance=<name> if
\* and only if an instance name is configured; the activation URL carries
\* integrationInstance=<name> if and only if an instance name is configured
\* and enableAsyncActivationMode=true if and only if the async-activation
\* flag is set; import and activation of one archive target the same instance.
C22_QueryParameters ==
    V4 => \A i \in DOMAIN reqs :
        /\ ParamCount(reqs[i].url, "integrationInstance") = (IF InstanceConfigured THEN 1 ELSE 0)
        /\ ParamValues(reqs[i].url, "integrationInstance") \subseteq {env.OIC_INSTANCE_NAME}
        /\ ParamValues(reqs[i].url, "integrationInstance")
             = ParamValues(reqs[1].url, "integrationInstance")
        /\ reqs[i].method = "ACTIVATE" =>
             /\ ParamCount(reqs[i].url, "enableAsyncActivationMode")
                  = (IF env.OIC_ENABLE_ASYNC_ACTIVATION THEN 1 ELSE 0)
             /\ ParamValues(reqs[i].url, "enableAsyncActivationMode") \subseteq {"true"}

\* an activation that carries both parameters after an import that carries the instance
C22_Witness ==
    /\ V4 /\ Activated /\ InstanceConfigured /\ env.OIC_ENABLE_ASYNC_ACTIVATION
    /\ reqs[1].url.query = <<<<"integrationInstance", "inst">>>>
    /\ reqs[Len(reqs)].url.query
         = <<<<"integrationInstance", "inst">>, <<"enableAsyncActivationMode", "true">>>>

\* the extension the script recognizes: ".car" for the project script,
\* ".iar" for the integration scripts
RecognizedExtension == IF Project THEN DotCar ELSE DotIar

\* C23: every archive for which an import request is issued has a basename
\* ending in the recognized archive extension, whether the files input was a
\* directory or a comma-separated list of paths.
C23_ImportedHasExtension ==
    \A i \in DOMAIN reqs :
        reqs[i].method \in {"POST", "PUT"}
            => EndsWith(Basename(reqs[i].payload[3]), RecognizedExtension)

\* the loop over files_to_deploy has ended
LoopDone == pc = "exit" /\ files_to_deploy # <<>> /\ Len(outcomes) = Len(files_to_deploy)

StatusOf(success) == IF success THEN "SUCCESS" ELSE "FAILED"

\* C24: after the archive loop of deploy_v4 the summary mapping holds exactly one result
\* per processed archive: the number of entries equals the number of
\* discovered archives, and each entry's status is the outcome of that
\* archive's own deployment.
C24_OneResultPerArchive ==
    (V4 /\ LoopDone) =>
        /\ Cardinality(DOMAIN deployment_results) = Len(files_to_deploy)
        /\ \A i \in DOMAIN files_to_deploy :
              deployment_results[Basename(files_to_deploy[i])] = StatusOf(outcomes[i])

\* the archive loop is running
InLoop == pc \in {"loop", "put", "activate"}

\* C25: the deployment target is immutable for the whole run of deploy_v4:
\* the base URL, bearer token, instance name and async-activation flag given
\* to the deployer are the same for every archive, and processing an archive,
\* whatever its outcome, changes none of them; across archives only the
\* result mapping and the overall-success flag change.
C25_TargetImmutable ==
    [][(V4 /\ InLoop) =>
        /\ env' = env
        /\ bearer_token' = bearer_token
        /\ files_to_deploy' = files_to_deploy
        /\ token_calls' = token_calls /\ token_response' = token_response
        /\ \A i \in DOMAIN reqs' :
              /\ reqs'[i].auth = bearer_token
              /\ ParamValues(reqs'[i].url, "integrationInstance")
                   = (IF InstanceConfigured THEN {env.OIC_INSTANCE_NAME} ELSE {})
              /\ reqs'[i].method = "ACTIVATE" =>
                   ParamValues(reqs'[i].url, "enableAsyncActivationMode")
                     = (IF env.OIC_ENABLE_ASYNC_ACTIVATION THEN {"true"} ELSE {})
        /\ overall_success' # overall_success => Len(outcomes') = Len(outcomes) + 1
        /\ deployment_results' # deployment_results => Len(outcomes') = Len(outcomes) + 1]_vars

\* a failed archive was followed by an activated one under the same token
C25_Witness ==
    /\ V4 /\ Completed /\ outcomes = <<FALSE, TRUE>> /\ Activated
    /\ bearer_token = "fallback" /\ InstanceConfigured
    /\ \A i \in DOMAIN reqs : reqs[i].auth = "fallback"

\* the run has ended with an exit code
Exited == pc = "exit" /\ exit_code \in {0, 1}

\* C27: when every HTTP call eventually returns a response or raises a
\* transport error, every run of deploy_v4 eventually terminates with exit
\* code 0 or 1, and a run that reaches the archive loop processes each
\* discovered archive exactly once and prints the summary before it exits.
C27_Terminates ==
    /\ <>Exited
    /\ [](pc = "exit" => Exited)
    /\ []((pc = "exit" /\ files_to_deploy # <<>>)
            => (Len(outcomes) = Len(files_to_deploy) /\ idx = Len(files_to_deploy) + 1))
    /\ [][/\ Len(outcomes') # Len(outcomes)
              => (Len(outcomes') = idx /\ idx' = idx + 1 /\ idx <= Len(files_to_deploy))
          /\ (pc' = "exit" /\ files_to_deploy' # <<>>)
              => (pc = "loop" /\ idx > Len(files_to_deploy))]_vars

\* a run of two archives that ended with exit code 0
C27_Witness ==
    /\ V4 /\ pc = "exit" /\ exit_code = 0
    /\ Len(files_to_deploy) = 2 /\ outcomes = <<TRUE, TRUE>>

\* the positions of the processed archives whose path is not on disk
MissingProcessed == {i \in 1..Len(outcomes) : ~Exists(files_to_deploy[i])}

\* C28: if an archive path of the resolved list does not exist on disk, its
\* outcome is Failed and no HTTP request at all is issued for it; the run
\* continues with the next archive and the final exit code is 1.
C28_MissingFileFails ==
    /\ \A i \in MissingProcessed : outcomes[i] = FALSE
    /\ (Completed /\ Len(outcomes) \in MissingProcessed)
        => (reqs = <<>> /\ deployment_results[Basename(LastFile)] = "FAILED"
            /\ idx = Len(outcomes) + 1)
    /\ (pc = "exit" /\ MissingProcessed = 1..Len(outcomes)) => ~archive_requested
    /\ (pc = "exit" /\ files_to_deploy # <<>>)
        => Len(outcomes) = Len(files_to_deploy)
    /\ (pc = "exit" /\ MissingProcessed # {}) => exit_code = 1

\* a missing file, then an archive deployed with success, and exit code 1
C28_Witness ==
    /\ V4 /\ pc = "exit" /\ exit_code = 1
    /\ files_to_deploy = <<PathGone, PathA>> /\ outcomes = <<FALSE, TRUE>>
    /\ Activated

\* the positions of the PUT requests of the call in progress or just returned
PutPositions == {i \in 1..Len(reqs) : reqs[i].method = "PUT"}

\* the first request of the call is the import POST of the archive of the
\* call, answered with HTTP 409
PostConflicted ==
    /\ Len(reqs) >= 1 /\ reqs[1].method = "POST"
    /\ reqs[1].payload[3] = files_to_deploy[idx - (IF Completed THEN 1 ELSE 0)]
    /\ reqs[1].resp.err = "none" /\ reqs[1].resp.status = 409

\* C29: in deploy_v4 a PUT request is issued only immediately after an import
\* POST for the same archive was answered with HTTP 409: no PUT follows a POST
\* answered 200, 204 or a non-409 error status, or a POST that failed with a
\* transport error.
C29_PutOnlyAfterConflict ==
    V4 =>
        /\ PutPositions \subseteq {2}
        /\ (PutPositions # {} \/ pc = "put") => PostConflicted
        /\ PutPositions # {} =>
            /\ reqs[2].payload = reqs[1].payload
            /\ reqs[2].url = reqs[1].url

\* a PUT was sent after a 409 and the call has returned
C29_Witness ==
    /\ V4 /\ Completed /\ PutPositions = {2} /\ PostConflicted
    /\ reqs[2].resp.err = "none" /\ reqs[2].resp.status = 200

----------------------------------------------------------------------------
(* Properties of the variants given the same call *)

\* the variant has run the call and sent the activation request
ActivatedBy(v) ==
    /\ results[v].done /\ results[v].reqs # <<>>
    /\ results[v].reqs[Len(results[v].reqs)].method = "ACTIVATE"

Later == {"deploy_v3", "deploy_v4"}

\* the activation was answered 200 with a body that is not JSON
UnparsableOk ==
    /\ call.activation.err = "none" /\ call.activation.status = 200
    /\ call.activation.body = "not_json"

\* the activation was answered 200 with the JSON status ACTIVATION_INPROGRESS
InProgressOk ==
    /\ call.activation.err = "none" /\ call.activation.status = 200
    /\ call.activation.body = "ACTIVATION_INPROGRESS"

\* the activation was answered with the JSON status ACTIVATED under a status
\* that is neither 200 nor an error status
ActivatedNot200 ==
    /\ call.activation.err = "none" /\ ~IsHttpError(call.activation)
    /\ call.activation.status # 200 /\ call.activation.body = "ACTIVATED"

\* C21 as stated: the variants disagree on exactly one activation case: for
\* an activation response of HTTP 200 whose body is not parsable as JSON,
\* deploy_v3 and deploy_v4 return Success while deploy_v2 returns Failed.
C21_OnlyUnparsableDiffers ==
    \A v \in Later :
        (ActivatedBy("deploy_v2") /\ ActivatedBy(v)) =>
            /\ results["deploy_v2"].outcome # results[v].outcome <=> UnparsableOk
            /\ UnparsableOk => (results[v].outcome = TRUE /\ results["deploy_v2"].outcome = FALSE)

\* C21 amended: given the same activation response, deploy_v2 and the later
\* variants disagree in exactly three cases: HTTP 200 with an unparsable body
\* and HTTP 200 with JSON status ACTIVATION_INPROGRESS (deploy_v3 and
\* deploy_v4 return Success, deploy_v2 Failed), and a success status other
\* than 200 with JSON status ACTIVATED (deploy_v2 returns Success, deploy_v3
\* and deploy_v4 Failed).
C21_ActivationDifferences ==
    \A v \in Later :
        (ActivatedBy("deploy_v2") /\ ActivatedBy(v)) =>
            /\ results["deploy_v2"].outcome # results[v].outcome
                <=> (UnparsableOk \/ InProgressOk \/ ActivatedNot200)
            /\ (UnparsableOk \/ InProgressOk)
                => (results[v].outcome = TRUE /\ results["deploy_v2"].outcome = FALSE)
            /\ ActivatedNot200
                => (results[v].outcome = FALSE /\ results["deploy_v2"].outcome = TRUE)

C21_Witness ==
    /\ ActivatedBy("deploy_v2") /\ ActivatedBy("deploy_v3") /\ ActivatedBy("deploy_v4")
    /\ InProgressOk
    /\ results["deploy_v2"].outcome = FALSE
    /\ results["deploy_v3"].outcome = TRUE /\ results["deploy_v4"].outcome = TRUE

\* the import POST of the call is sent and answered with HTTP 409
CallConflict ==
    /\ Exists(call.iar_file_path)
    /\ call.post.err = "none" /\ call.post.status = 409

\* C26: deploy_v3 and deploy_v4 are equivalent except for the conflict
\* fallback: for every archive and every sequence of server responses in
\* which the import POST is not answered 409, both issue the same sequence of
\* requests and return the same outcome; when the POST is answered 409,
\* deploy_v3 returns Failed with no further request while deploy_v4 issues
\* the PUT.
C26_SameExceptConflict ==
    (results["deploy_v3"].done /\ results["deploy_v4"].done) =>
        IF CallConflict
        THEN /\ results["deploy_v3"].outcome = FALSE
             /\ Len(results["deploy_v3"].reqs) = 1
             /\ results["deploy_v3"].reqs[1] = results["deploy_v4"].reqs[1]
             /\ Len(results["deploy_v4"].reqs) >= 2
             /\ results["deploy_v4"].reqs[2].method = "PUT"
        ELSE /\ results["deploy_v3"].reqs = results["deploy_v4"].reqs
             /\ results["deploy_v3"].outcome = results["deploy_v4"].outcome

\* both variants derive the identifier after an unparsable import answer and activate
C26_Witness ==
    /\ results["deploy_v3"].done /\ results["deploy_v4"].done
    /\ call.iar_file_path = PathA
    /\ call.post.status = 200 /\ call.post.body = "not_json"
    /\ Len(results["deploy_v3"].reqs) = 2
    /\ results["deploy_v3"].reqs = results["deploy_v4"].reqs
    /\ results["deploy_v3"].outcome = TRUE /\ results["deploy_v4"].outcome = TRUE

====
